---- MODULE Spec2Model ----
\* A model of scripts/speaker_recognition/ASR_with_SpeakerDiarization.py:
\* the greedy CTC decoder of class WER, the silence scan and voice-activity
\* labels, the word timing of get_speech_labels_list/_get_spaces, the
\* speaker attribution of write_json_and_transcript, the scoring loop of
\* eval_diarization and the batch driver of __main__; and of the example
\* builder of nemo/collections/nlp/data/text_normalization/test_dataset.py.
\*
\* Each component is a specification of its own (SpecCTC, SpecVAD, SpecWT,
\* SpecSA, SpecED, SpecMain, SpecDS); the variables of the other components
\* stay at their idle value.
\* Times are integers in milliseconds (the script formats and rounds times
\* to three decimals of a second); frame indices are 0-based as in Python,
\* sequences are 1-based, so Python's x[i] is x[i + 1] here.
EXTENDS Integers, Sequences, FiniteSets, TLC

VARIABLES
    \* ---- WER.ctc_decoder_predictions_tensor, one row of the batch
    vocabulary,            \* the vocabulary the WER object was built with
    blank_id,              \* self.blank_id
    predictions,           \* the row predictions[ind], padded
    predictions_len,       \* predictions_len[ind], or NoneLen
    return_hypotheses,
    return_timestamps,
    prediction,            \* the row after truncation
    pdx,                   \* number of frames consumed by the loop
    previous,
    decoded_prediction,
    decoded_timing_list,
    hypotheses,            \* the returned list of hypotheses
    ts_out,                \* the returned list `timestamps`
    ctc_pc,
    ctc_err,
    \* ---- _get_silence_timestamps, the filter, get_speech_label_and_write_VAD_rttm
    probs,                 \* per frame, the arg-max class of the frame
    vad_params,
    state,
    idx_state,
    blanks,                \* `spaces` of _get_silence_timestamps
    vad_idx,               \* loop index of the running loop
    non_speech,
    speech_labels,
    vad_pc,
    vad_err,
    \* ---- _get_spaces and the timing windows of get_speech_labels_list
    trans,
    timestamps,
    n_frames,              \* logit.shape[0]
    wt_spaces,             \* _spaces
    trans_words,           \* _trans_words
    word_timetamps,
    wt_pc,
    wt_err,
    \* ---- write_json_and_transcript, one utterance
    labels,                \* diar_result_labels_list[k]: turns (start, end, speaker)
    words,
    word_ts,
    spaces,
    params,
    idx,
    pos_prev,
    j,
    end_point,
    speaker,
    string_out,
    riva_dict,
    sa_pc,
    sa_err,
    \* ---- eval_diarization
    audio_file_list,       \* per utterance: its id, whether its reference RTTM
                           \* exists, and the score detail of its pair
    ed_k,                  \* number of utterances the loop has gone through
    all_references,
    all_hypotheses,
    diar_result_labels_list,
    der_out,               \* what get_DER returned
    ed_pc,
    ed_err,
    \* ---- __main__, the batch driver
    main_batch,            \* per utterance: transcript, timestamps, frames,
                           \* arg-max trace, and the diarizer's turns
    main_params,
    main_i,                \* index of the running per-utterance loop
    trans_words_list,
    spaces_list,
    word_ts_list,
    main_labels_list,      \* diar_result_labels_list of __main__
    json_written,          \* the utterances whose JSON and transcript are written
    main_pc,
    main_err,
    \* ---- TextNormalizationTestDataset.__init__
    insts,
    mode,
    ds_i,                  \* number of instances the loop has gone through
    directions,
    inputs,
    targets,
    classes,
    nb_spans,
    span_starts,
    span_ends,
    examples,
    ds_pc,
    \* ---- EncDecCTCModel4Diar.transcribe
    paths2audio_files,     \* the audio files, each with its own name
    batch_size,
    logprobs,
    tr_return_hypotheses,
    return_text_with_logprobs_and_ts,
    tr_done,               \* number of files the dataloader has yielded
    tr_hypotheses,         \* the list `hypotheses` of transcribe
    tr_pc,
    tr_err

ctcVars == <<vocabulary, blank_id, predictions, predictions_len, return_hypotheses,
             return_timestamps, prediction, pdx, previous, decoded_prediction,
             decoded_timing_list, hypotheses, ts_out, ctc_pc, ctc_err>>
vadVars == <<probs, vad_params, state, idx_state, blanks, vad_idx, non_speech,
             speech_labels, vad_pc, vad_err>>
wtVars == <<trans, timestamps, n_frames, wt_spaces, trans_words, word_timetamps,
            wt_pc, wt_err>>
saVars == <<labels, words, word_ts, spaces, params, idx, pos_prev, j, end_point,
            speaker, string_out, riva_dict, sa_pc, sa_err>>
edVars == <<audio_file_list, ed_k, all_references, all_hypotheses,
            diar_result_labels_list, der_out, ed_pc, ed_err>>
mainVars == <<main_batch, main_params, main_i, trans_words_list, spaces_list,
              word_ts_list, main_labels_list, json_written, main_pc, main_err>>
dsVars == <<insts, mode, ds_i, directions, inputs, targets, classes, nb_spans,
            span_starts, span_ends, examples, ds_pc>>
trVars == <<paths2audio_files, batch_size, logprobs, tr_return_hypotheses,
            return_text_with_logprobs_and_ts, tr_done, tr_hypotheses, tr_pc, tr_err>>
vars == <<ctcVars, vadVars, wtVars, saVars, edVars, mainVars, dsVars, trVars>>

\* ------------------------------------------------------------------
\* Bounds of the model and shared helpers

\* longest enumerated token row
MaxFrames == 4

SeqsUpTo(S, n) == UNION {[1..k -> S] : k \in 0..n}

Range(s) == {s[i] : i \in 1..Len(s)}

\* Python's s[:n] for n >= 0
Prefix(s, n) == SubSeq(s, 1, IF n < Len(s) THEN n ELSE Len(s))

\* ------------------------------------------------------------------
\* Idle values of the components

CTCIdle ==
    /\ vocabulary = <<>> /\ blank_id = 0 /\ predictions = <<>>
    /\ predictions_len = 0 /\ return_hypotheses = FALSE /\ return_timestamps = FALSE
    /\ prediction = <<>> /\ pdx = 0 /\ previous = 0
    /\ decoded_prediction = <<>> /\ decoded_timing_list = <<>>
    /\ hypotheses = <<>> /\ ts_out = <<>> /\ ctc_pc = "idle" /\ ctc_err = "none"

VADIdle ==
    /\ probs = <<>> /\ vad_params = <<>> /\ state = "" /\ idx_state = 0
    /\ blanks = <<>> /\ vad_idx = 0 /\ non_speech = <<>> /\ speech_labels = <<>>
    /\ vad_pc = "idle" /\ vad_err = "none"

WTIdle ==
    /\ trans = <<>> /\ timestamps = <<>> /\ n_frames = 0 /\ wt_spaces = <<>>
    /\ trans_words = <<>> /\ word_timetamps = <<>> /\ wt_pc = "idle" /\ wt_err = "none"

SAIdle ==
    /\ labels = <<>> /\ words = <<>> /\ word_ts = <<>> /\ spaces = <<>>
    /\ params = <<>> /\ idx = 0 /\ pos_prev = 0 /\ j = 0 /\ end_point = 0
    /\ speaker = "" /\ string_out = <<>> /\ riva_dict = <<>>
    /\ sa_pc = "idle" /\ sa_err = "none"

EDIdle ==
    /\ audio_file_list = <<>> /\ ed_k = 0 /\ all_references = <<>>
    /\ all_hypotheses = <<>> /\ diar_result_labels_list = <<>> /\ der_out = <<>>
    /\ ed_pc = "idle" /\ ed_err = "none"

MainIdle ==
    /\ main_batch = <<>> /\ main_params = <<>> /\ main_i = 0
    /\ trans_words_list = <<>> /\ spaces_list = <<>> /\ word_ts_list = <<>>
    /\ main_labels_list = <<>> /\ json_written = {}
    /\ main_pc = "idle" /\ main_err = "none"

DSIdle ==
    /\ insts = <<>> /\ mode = "" /\ ds_i = 0 /\ directions = <<>> /\ inputs = <<>>
    /\ targets = <<>> /\ classes = <<>> /\ nb_spans = <<>> /\ span_starts = <<>>
    /\ span_ends = <<>> /\ examples = <<>> /\ ds_pc = "idle"

TRIdle ==
    /\ paths2audio_files = <<>> /\ batch_size = 0 /\ logprobs = FALSE
    /\ tr_return_hypotheses = FALSE /\ return_text_with_logprobs_and_ts = FALSE
    /\ tr_done = 0 /\ tr_hypotheses = <<>> /\ tr_pc = "idle" /\ tr_err = "none"

\* the components outside the script's four stages stay idle
OthersIdle == EDIdle /\ MainIdle /\ DSIdle /\ TRIdle

\* ------------------------------------------------------------------
\* Frame Decoder: WER.ctc_decoder_predictions_tensor

\* predictions_len = None
NoneLen == -1

\* the vocabularies the decoder is built with: the empty one (blank id 0)
\* and a two-character one (blank id 2)
Vocabularies == {<<>>, <<" ", "a">>}

\* the row of the decoding example, blank id 0
ExamplePrediction == <<5, 5, 0, 0, 7, 7, 7, 0, 5>>

\* self.blank_id = len(vocabulary)
BlankId_LastIndex(v) == Len(v) - 1
BlankId(v) == Len(v)

\* self.labels_map: index i of the vocabulary -> vocabulary[i]
LabelsMap(v) == [i \in 0..(Len(v) - 1) |-> v[i + 1]]

\* the condition under which frame label p is emitted
EmitCond_NoCollapse(p, prev, blank) == p # blank
EmitCond_BlankToo(p, prev, blank) == p # prev \/ prev = blank
EmitCond(p, prev, blank) == (p # prev \/ prev = blank) /\ p # blank

\* the frame index recorded for an emission made at loop index i
EmitTiming_Next(i) == i + 1
EmitTiming_Prev(i) == i - 1
EmitTiming(i) == i

\* decode_ids_to_tokens: the characters of the non-blank tokens; a token
\* outside labels_map raises KeyError
DecodeIdsToTokens(tokens, v, blank) ==
    LET kept == SelectSeq(tokens, LAMBDA c : c # blank)
    IN  IF \A i \in 1..Len(kept) : kept[i] \in DOMAIN LabelsMap(v)
        THEN [ok |-> TRUE, tokens |-> [i \in 1..Len(kept) |-> LabelsMap(v)[kept[i]]]]
        ELSE [ok |-> FALSE, tokens |-> <<>>]

\* decode_ids_to_tokens_with_ts: the timestamps of the non-blank tokens
RECURSIVE KeptTimestamps(_, _, _)
KeptTimestamps(tokens, tss, blank) ==
    IF tokens = <<>> THEN <<>>
    ELSE IF Head(tokens) # blank
         THEN <<Head(tss)>> \o KeptTimestamps(Tail(tokens), Tail(tss), blank)
         ELSE KeptTimestamps(Tail(tokens), Tail(tss), blank)

\* decode_tokens_to_str_with_ts: (hypothesis, timestamp_list)
DecodeTokensToStrWithTs(tokens, tss, v, blank) ==
    LET d == DecodeIdsToTokens(tokens, v, blank)
    IN  [ok |-> d.ok, text |-> d.tokens,
         timestamp_list |-> IF d.ok THEN KeptTimestamps(tokens, tss, blank) ELSE <<>>]

\* number of parameters of decode_tokens_to_str besides self
DecodeTokensToStrParams == 1
\* number of arguments the call without timestamps passes to it
DecodeTokensToStrArgs == 2

CTCInit ==
    /\ vocabulary \in Vocabularies
    /\ blank_id = BlankId(vocabulary)
    /\ predictions \in SeqsUpTo(0..(Len(vocabulary) + 1), MaxFrames) \cup {ExamplePrediction}
    /\ predictions_len \in {NoneLen} \cup 0..Len(predictions)
    /\ return_hypotheses \in BOOLEAN
    /\ return_timestamps \in BOOLEAN
    /\ prediction = <<>> /\ pdx = 0 /\ previous = 0
    /\ decoded_prediction = <<>> /\ decoded_timing_list = <<>>
    /\ hypotheses = <<>> /\ ts_out = <<>>
    /\ ctc_pc = "start" /\ ctc_err = "none"

\* lines 91-97: the row, truncated to its length; the loop's locals
CTCBegin ==
    /\ ctc_pc = "start"
    /\ prediction' = IF predictions_len # NoneLen
                     THEN Prefix(predictions, predictions_len) ELSE predictions
    /\ decoded_prediction' = <<>>
    /\ decoded_timing_list' = <<>>
    /\ previous' = blank_id
    /\ pdx' = 0
    /\ ctc_pc' = "loop"
    /\ UNCHANGED <<vocabulary, blank_id, predictions, predictions_len, return_hypotheses,
                   return_timestamps, hypotheses, ts_out, ctc_err>>
    /\ UNCHANGED <<vadVars, wtVars, saVars, edVars, mainVars, dsVars, trVars>>

\* lines 98-102: one iteration of the CTC decoding loop
CTCFrame ==
    /\ ctc_pc = "loop"
    /\ pdx < Len(prediction)
    /\ LET p == prediction[pdx + 1]
       IN  /\ IF EmitCond(p, previous, blank_id)
              THEN /\ decoded_prediction' = Append(decoded_prediction, p)
                   /\ decoded_timing_list' = Append(decoded_timing_list, EmitTiming(pdx))
              ELSE UNCHANGED <<decoded_prediction, decoded_timing_list>>
           /\ previous' = p
    /\ pdx' = pdx + 1
    /\ UNCHANGED <<vocabulary, blank_id, predictions, predictions_len, return_hypotheses,
                   return_timestamps, prediction, hypotheses, ts_out, ctc_pc, ctc_err>>
    /\ UNCHANGED <<vadVars, wtVars, saVars, edVars, mainVars, dsVars, trVars>>

\* the Hypothesis object of lines 112-118, or the bare text
MakeHypothesis(text) ==
    IF ~return_hypotheses THEN [text |-> text]
    ELSE [y_sequence |-> "None", score |-> -1, text |-> text,
          alignments |-> prediction,
          length |-> IF predictions_len # NoneLen THEN predictions_len ELSE 0]

\* lines 104-126: the tokens to text, the hypothesis, the return
CTCDecode ==
    /\ ctc_pc = "loop"
    /\ pdx = Len(prediction)
    /\ IF return_timestamps
       THEN LET r == DecodeTokensToStrWithTs(decoded_prediction, decoded_timing_list,
                                             vocabulary, blank_id)
            IN  IF r.ok
                THEN /\ hypotheses' = <<MakeHypothesis(r.text)>>
                     /\ ts_out' = <<r.timestamp_list>>
                     /\ ctc_pc' = "done"
                     /\ UNCHANGED ctc_err
                ELSE /\ ctc_pc' = "error"
                     /\ ctc_err' = "KeyError"
                     /\ UNCHANGED <<hypotheses, ts_out>>
       ELSE IF DecodeTokensToStrArgs # DecodeTokensToStrParams
            THEN /\ ctc_pc' = "error"
                 /\ ctc_err' = "TypeError"
                 /\ UNCHANGED <<hypotheses, ts_out>>
            ELSE LET d == DecodeIdsToTokens(decoded_prediction, vocabulary, blank_id)
                 IN  IF d.ok
                     THEN /\ hypotheses' = <<MakeHypothesis(d.tokens)>>
                          /\ ts_out' = <<>>
                          /\ ctc_pc' = "done"
                          /\ UNCHANGED ctc_err
                     ELSE /\ ctc_pc' = "error"
                          /\ ctc_err' = "KeyError"
                          /\ UNCHANGED <<hypotheses, ts_out>>
    /\ UNCHANGED <<vocabulary, blank_id, predictions, predictions_len, return_hypotheses,
                   return_timestamps, prediction, pdx, previous, decoded_prediction,
                   decoded_timing_list>>
    /\ UNCHANGED <<vadVars, wtVars, saVars, edVars, mainVars, dsVars, trVars>>

InitCTC == CTCInit /\ VADIdle /\ WTIdle /\ SAIdle /\ OthersIdle

NextCTC ==
    \/ CTCBegin
    \/ CTCFrame
    \/ CTCDecode

SpecCTC == InitCTC /\ [][NextCTC]_vars

\* ------------------------------------------------------------------
\* Silence Segmenter and voice-activity labels: _get_silence_timestamps,
\* the width filter and get_speech_label_and_write_VAD_rttm, as called by
\* get_speech_labels_list (lines 473-480)

\* longest enumerated arg-max trace
MaxProbFrames == 6
\* largest enumerated params['threshold']
MaxThreshold == 2

\* symbol_idx = 28, the class of the blank symbol
SymbolIdx == 28

\* the arg-max classes told apart by the scan: class 0, the blank symbol,
\* and one class standing for every other
ArgmaxClasses == {0, 1, SymbolIdx}

\* the params dictionary: the script's stride and offset in milliseconds,
\* with the threshold drawn from a small range
VADParamsSet ==
    {[time_stride |-> 20, offset |-> -180, threshold |-> t] : t \in 0..MaxThreshold}

\* frame_offset = params['offset'] / params['time_stride']
FrameOffset(p) == p.offset \div p.time_stride

\* (frame + frame_offset) * params['time_stride'], to three decimals
FrameTime(f, p) == (f + FrameOffset(p)) * p.time_stride

\* line 325: the test that closes the open run at a frame of class c
ClosesRun_OnZero(st, c) == st = "blank" /\ c # SymbolIdx
ClosesRun(st, c) == st = "blank" /\ c # 0 /\ c # SymbolIdx

\* line 334: the end of a run still open after the last of n frames
LastFrame_Len(n) == n
LastFrame(n) == n - 1

\* the test of the filter that keeps an interval as non-speech
KeepNonSpeech(x, p) == x[2] - x[1] > p.threshold

VADInit ==
    /\ probs \in SeqsUpTo(ArgmaxClasses, MaxProbFrames) \ {<<>>}
    /\ vad_params \in VADParamsSet
    /\ state = "" /\ idx_state = 0 /\ blanks = <<>> /\ vad_idx = 0
    /\ non_speech = <<>> /\ speech_labels = <<>>
    /\ vad_pc = "start" /\ vad_err = "none"

\* lines 316-321: the locals, and the test of frame 0
VADFirst ==
    /\ vad_pc = "start"
    /\ blanks' = <<>>
    /\ idx_state' = 0
    /\ state' = IF probs[1] = SymbolIdx THEN "blank" ELSE ""
    /\ vad_idx' = 1
    /\ vad_pc' = "scan"
    /\ UNCHANGED <<probs, vad_params, non_speech, speech_labels, vad_err>>
    /\ UNCHANGED <<ctcVars, wtVars, saVars, edVars, mainVars, dsVars, trVars>>

\* lines 323-331: one iteration of the scan, frame vad_idx
VADScan ==
    /\ vad_pc = "scan"
    /\ vad_idx < Len(probs)
    /\ LET current_char_idx == probs[vad_idx + 1]
           closes == ClosesRun(state, current_char_idx)
           state1 == IF closes THEN "" ELSE state
           opens == state1 = "" /\ current_char_idx = SymbolIdx
       IN  /\ blanks' = IF closes THEN Append(blanks, <<idx_state, vad_idx - 1>>)
                        ELSE blanks
           /\ state' = IF opens THEN "blank" ELSE state1
           /\ idx_state' = IF opens THEN vad_idx ELSE idx_state
    /\ vad_idx' = vad_idx + 1
    /\ UNCHANGED <<probs, vad_params, non_speech, speech_labels, vad_pc, vad_err>>
    /\ UNCHANGED <<ctcVars, wtVars, saVars, edVars, mainVars, dsVars, trVars>>

\* lines 333-336: the run still open after the last frame is closed
VADClose ==
    /\ vad_pc = "scan"
    /\ vad_idx = Len(probs)
    /\ blanks' = IF state = "blank"
                 THEN Append(blanks, <<idx_state, LastFrame(Len(probs))>>) ELSE blanks
    /\ vad_pc' = "filter"
    /\ UNCHANGED <<probs, vad_params, state, idx_state, vad_idx, non_speech,
                   speech_labels, vad_err>>
    /\ UNCHANGED <<ctcVars, wtVars, saVars, edVars, mainVars, dsVars, trVars>>

\* line 474: the width filter; lines 429-431: the locals of the label writer
VADFilter ==
    /\ vad_pc = "filter"
    /\ non_speech' = SelectSeq(blanks, LAMBDA x : KeepNonSpeech(x, vad_params))
    /\ vad_idx' = 0
    /\ speech_labels' = <<>>
    /\ vad_pc' = "speech"
    /\ UNCHANGED <<probs, vad_params, state, idx_state, blanks, vad_err>>
    /\ UNCHANGED <<ctcVars, wtVars, saVars, edVars, mainVars, dsVars, trVars>>

\* lines 433-437: the speech label between two non-speech intervals
VADSpeech ==
    /\ vad_pc = "speech"
    /\ vad_idx < Len(non_speech) - 1
    /\ LET start == FrameTime(non_speech[vad_idx + 1][2], vad_params)
           end == FrameTime(non_speech[vad_idx + 2][1], vad_params)
       IN  speech_labels' = Append(speech_labels, [start |-> start, end |-> end])
    /\ vad_idx' = vad_idx + 1
    /\ UNCHANGED <<probs, vad_params, state, idx_state, blanks, non_speech, vad_pc, vad_err>>
    /\ UNCHANGED <<ctcVars, wtVars, saVars, edVars, mainVars, dsVars, trVars>>

\* lines 439-445: the speech label after the last non-speech interval
VADTail ==
    /\ vad_pc = "speech"
    /\ vad_idx >= Len(non_speech) - 1
    /\ IF non_speech = <<>>
       THEN /\ vad_pc' = "error"
            /\ vad_err' = "IndexError"
            /\ UNCHANGED speech_labels
       ELSE LET last == non_speech[Len(non_speech)]
            IN  /\ speech_labels' =
                       IF last[2] < Len(probs)
                       THEN Append(speech_labels,
                                   [start |-> FrameTime(last[2], vad_params),
                                    end |-> FrameTime(Len(probs), vad_params)])
                       ELSE speech_labels
                /\ vad_pc' = "done"
                /\ UNCHANGED vad_err
    /\ UNCHANGED <<probs, vad_params, state, idx_state, blanks, vad_idx, non_speech>>
    /\ UNCHANGED <<ctcVars, wtVars, saVars, edVars, mainVars, dsVars, trVars>>

InitVAD == CTCIdle /\ VADInit /\ WTIdle /\ SAIdle /\ OthersIdle

NextVAD ==
    \/ VADFirst
    \/ VADScan
    \/ VADClose
    \/ VADFilter
    \/ VADSpeech
    \/ VADTail

SpecVAD == InitVAD /\ [][NextVAD]_vars

\* ------------------------------------------------------------------
\* Word Timer: _get_spaces and the timing windows of get_speech_labels_list
\* (lines 471, 482-489). The voice-activity call of lines 473-480 reads
\* neither the words nor the windows; it is the specification SpecVAD.

\* longest enumerated hypothesis text
MaxChars == 3
\* largest enumerated number of frames of an utterance
MaxUttFrames == 5

\* the characters of a hypothesis text: the space and one letter
Chars == {" ", "a"}

\* the hypothesis "hi there" of the attribution example: its characters are
\* emitted at frames 0,1 (hi), 10 (space), 12..16 (there), of 20 frames
ExampleUtterance ==
    [trans |-> <<"h", "i", " ", "t", "h", "e", "r", "e">>,
     timestamps |-> <<0, 1, 10, 12, 13, 14, 15, 16>>,
     n_frames |-> 20]

\* the strictly increasing sequences of n frame indices below MaxUttFrames
IncreasingFrames(n) ==
    {ts \in [1..n -> 0..(MaxUttFrames - 1)] : \A i \in 1..(n - 1) : ts[i] < ts[i + 1]}

\* what transcribe hands over for one file: a text, one strictly increasing
\* frame index per character, and the number of frames of the logits
Utterances ==
    UNION {UNION {{[trans |-> t, timestamps |-> ts, n_frames |-> n] :
                      n \in (IF ts = <<>> THEN 0 ELSE ts[Len(ts)] + 1)..MaxUttFrames} :
                  ts \in IncreasingFrames(Len(t))} :
           t \in SeqsUpTo(Chars, MaxChars)}
    \cup {ExampleUtterance}

\* line 501: the boundary of the space at text position k
SpaceInterval_Before(ts, k) == <<ts[k + 1], ts[k + 1] - 1>>
SpaceInterval(ts, k) == <<ts[k + 1], ts[k + 2] - 1>>

\* the loop of _get_spaces (lines 499-503) from text position k on
RECURSIVE SpacesLoop(_, _, _, _, _, _)
SpacesLoop(tr, ts, k, stt_idx, sp, word_list) ==
    IF k = Len(tr)
    THEN [err |-> "none", spaces |-> sp, word_list |-> word_list, stt_idx |-> stt_idx]
    ELSE IF tr[k + 1] = " "
         THEN IF k + 2 > Len(ts)
              THEN [err |-> "IndexError", spaces |-> sp, word_list |-> word_list,
                    stt_idx |-> stt_idx]
              ELSE SpacesLoop(tr, ts, k + 1, k + 1,
                              Append(sp, SpaceInterval(ts, k)),
                              Append(word_list, SubSeq(tr, stt_idx + 1, k)))
         ELSE SpacesLoop(tr, ts, k + 1, stt_idx, sp, word_list)

\* whether the final word is flushed (line 504)
FlushLast_Strict(tr, stt_idx) == Len(tr) > stt_idx + 1 /\ tr[stt_idx + 1] # " "
FlushLast(tr, stt_idx) == Len(tr) > stt_idx /\ tr[stt_idx + 1] # " "

\* _get_spaces (lines 493-507)
GetSpaces(tr, ts) ==
    IF ~(Len(tr) > 0 /\ Len(ts) > 0) \/ Len(tr) # Len(ts)
    THEN [err |-> "AssertionError", spaces |-> <<>>, word_list |-> <<>>]
    ELSE LET r == SpacesLoop(tr, ts, 0, 0, <<>>, <<>>)
         IN  IF r.err # "none"
             THEN [err |-> r.err, spaces |-> <<>>, word_list |-> <<>>]
             ELSE [err |-> "none", spaces |-> r.spaces,
                   word_list |-> IF FlushLast(tr, r.stt_idx)
                                 THEN Append(r.word_list,
                                             SubSeq(tr, r.stt_idx + 1, Len(tr)))
                                 ELSE r.word_list]

\* line 483: the end of the last word's window, n being logit.shape[0]
LastWindowEnd_Last(n) == n - 1
LastWindowEnd(n) == n

\* lines 482-483: the timing windows of the words
WordTimestamps(sp, ts, n) ==
    IF sp = <<>>
    THEN [err |-> "IndexError", windows |-> <<>>]
    ELSE [err |-> "none",
          windows |-> <<<<ts[1], sp[1][1]>>>>
                      \o [k \in 1..(Len(sp) - 1) |-> <<sp[k][2], sp[k + 1][1]>>]
                      \o <<<<sp[Len(sp)][2], LastWindowEnd(n)>>>>]

WTInit ==
    /\ \E u \in Utterances :
          /\ trans = u.trans
          /\ timestamps = u.timestamps
          /\ n_frames = u.n_frames
    /\ wt_spaces = <<>> /\ trans_words = <<>> /\ word_timetamps = <<>>
    /\ wt_pc = "start" /\ wt_err = "none"

\* line 471: _spaces, _trans_words = _get_spaces(trans, timestamps)
WTGetSpaces ==
    /\ wt_pc = "start"
    /\ LET r == GetSpaces(trans, timestamps)
       IN  /\ wt_spaces' = r.spaces
           /\ trans_words' = r.word_list
           /\ wt_err' = r.err
           /\ wt_pc' = IF r.err = "none" THEN "windows" ELSE "error"
    /\ UNCHANGED <<trans, timestamps, n_frames, word_timetamps>>
    /\ UNCHANGED <<ctcVars, vadVars, saVars, edVars, mainVars, dsVars, trVars>>

\* lines 482-483: word_timetamps
WTWindows ==
    /\ wt_pc = "windows"
    /\ LET r == WordTimestamps(wt_spaces, timestamps, n_frames)
       IN  /\ word_timetamps' = r.windows
           /\ wt_err' = r.err
           /\ wt_pc' = IF r.err = "none" THEN "check" ELSE "error"
    /\ UNCHANGED <<trans, timestamps, n_frames, wt_spaces, trans_words>>
    /\ UNCHANGED <<ctcVars, vadVars, saVars, edVars, mainVars, dsVars, trVars>>

\* lines 485-491: the results are appended, the counts compared, the return
WTCheck ==
    /\ wt_pc = "check"
    /\ IF Len(trans_words) = Len(word_timetamps)
       THEN wt_pc' = "done" /\ UNCHANGED wt_err
       ELSE wt_pc' = "error" /\ wt_err' = "AssertionError"
    /\ UNCHANGED <<trans, timestamps, n_frames, wt_spaces, trans_words, word_timetamps>>
    /\ UNCHANGED <<ctcVars, vadVars, saVars, edVars, mainVars, dsVars, trVars>>

InitWT == CTCIdle /\ VADIdle /\ WTInit /\ SAIdle /\ OthersIdle

NextWT ==
    \/ WTGetSpaces
    \/ WTWindows
    \/ WTCheck

SpecWT == InitWT /\ [][NextWT]_vars

\* ------------------------------------------------------------------
\* Speaker Attributor: write_json_and_transcript, for one utterance k

\* largest enumerated number of speaker turns of an utterance
MaxTurns == 3
\* the enumerated turn boundaries lie on the even frames up to twice this
MaxTurnTicks == 3

\* params: the values of the script (stride 0.02 s, offset -0.18 s), and a
\* stride of one second with no offset, in milliseconds
SAParamsSet ==
    {[time_stride |-> 20, offset |-> -180], [time_stride |-> 1000, offset |-> 0]}

Speakers == {"A", "B"}

\* the turns of the attribution example: (0, 15, A) and (15, 30, B), in seconds
ExampleLabels ==
    <<[start |-> 0, end |-> 15000, speaker |-> "A"],
      [start |-> 15000, end |-> 30000, speaker |-> "B"]>>

\* the frames a turn can start or end at: the even frames
TurnFrames == {2 * g : g \in 0..MaxTurnTicks}

\* the time-ordered lists of at most n turns that do not overlap and start at
\* frame `from` or later
RECURSIVE FrameTurnLists(_, _)
FrameTurnLists(n, from) ==
    {<<>>} \cup
    (IF n = 0 THEN {}
     ELSE UNION {{<<[start |-> t[1], end |-> t[2], speaker |-> t[3]]>> \o rest :
                     rest \in FrameTurnLists(n - 1, t[2])} :
                 t \in {x \in TurnFrames \X TurnFrames \X Speakers :
                           from <= x[1] /\ x[1] < x[2]}})

\* the turn lists read from the predicted RTTM file, in frames
TurnLists == FrameTurnLists(MaxTurns, 0)

\* the turns of a list, with their times on the multiples of the stride
TurnsAtStride(l, p) ==
    [i \in 1..Len(l) |-> [start |-> l[i].start * p.time_stride,
                          end |-> l[i].end * p.time_stride,
                          speaker |-> l[i].speaker]]

\* get_num_of_spk_from_labels
GetNumOfSpkFromLabels(ls) == Cardinality({ls[i].speaker : i \in 1..Len(ls)})

\* ' '.join(word_list[k])
RECURSIVE JoinWords(_)
JoinWords(ws) ==
    IF ws = <<>> THEN <<>>
    ELSE IF Len(ws) = 1 THEN ws[1]
         ELSE ws[1] \o <<" ">> \o JoinWords(Tail(ws))

\* str.strip of a word
RECURSIVE Strip(_)
Strip(w) ==
    IF w = <<>> THEN <<>>
    ELSE IF Head(w) = " " THEN Strip(Tail(w))
         ELSE IF w[Len(w)] = " " THEN Strip(SubSeq(w, 1, Len(w) - 1))
              ELSE w

\* the clock string of print_time keeps two decimals of a second
Centis(t) == t - (t % 10)

\* print_time: the marker "[start - end] speaker:" of a turn
PrintTime(out, turn) ==
    Append(out, [kind |-> "time", speaker |-> turn.speaker,
                 start |-> Centis(turn.start), end |-> Centis(turn.end), word |-> <<>>])

\* print_word
PrintWord(out, word) ==
    Append(out, [kind |-> "word", speaker |-> "", start |-> 0, end |-> 0,
                 word |-> Strip(word)])

\* the speaker written into the JSON entry of a word (line 382)
EntrySpeaker_First(ls, spk) == ls[1].speaker
EntrySpeaker(ls, spk) == spk

\* add_json_to_dict
AddJsonToDict(d, word, w_ts, spk, p) ==
    [d EXCEPT !.words = Append(@, [word |-> word,
                                   start_time |-> p.offset + w_ts[1] * p.time_stride,
                                   end_time |-> p.offset + w_ts[2] * p.time_stride,
                                   speaker_label |-> spk])]

\* params['offset'] + np.mean(space_stt_end) * params['time_stride']
\* (the strides are even numbers of milliseconds, so the half is exact)
PosEnd(space_stt_end, p) ==
    p.offset + ((space_stt_end[1] + space_stt_end[2]) * p.time_stride) \div 2

\* whether the word is written under the current turn (line 374)
StaysInTurn(prev, pos, endp) == prev < endp

\* the inputs of one utterance: the Word Timer's results for an utterance
\* it completes on, the turns of the diarizer, and the params
SAInit ==
    /\ \E u \in Utterances :
          LET r == GetSpaces(u.trans, u.timestamps)
              w == WordTimestamps(r.spaces, u.timestamps, u.n_frames)
          IN  /\ r.err = "none"
              /\ w.err = "none"
              /\ Len(r.word_list) = Len(w.windows)
              /\ words = r.word_list
              /\ spaces = r.spaces
              /\ word_ts = w.windows
    /\ params \in SAParamsSet
    /\ \E l \in TurnLists :
          labels \in {TurnsAtStride(l, params), ExampleLabels}
    /\ idx = 0 /\ pos_prev = 0 /\ j = 0 /\ end_point = 0 /\ speaker = ""
    /\ string_out = <<>> /\ riva_dict = <<>>
    /\ sa_pc = "start" /\ sa_err = "none"

\* lines 350-368: the record, the first turn and its marker, the locals
SABegin ==
    /\ sa_pc = "start"
    /\ riva_dict' = [status |-> "Success",
                     transcription |-> JoinWords(words),
                     speaker_count |-> GetNumOfSpkFromLabels(labels),
                     words |-> <<>>]
    /\ IF labels = <<>>
       THEN /\ sa_pc' = "error"
            /\ sa_err' = "IndexError"
            /\ UNCHANGED <<end_point, speaker, string_out>>
       ELSE /\ end_point' = labels[1].end
            /\ speaker' = labels[1].speaker
            /\ string_out' = PrintTime(<<>>, labels[1])
            /\ sa_pc' = "loop"
            /\ UNCHANGED sa_err
    /\ pos_prev' = 0
    /\ idx' = 0
    /\ j' = 0
    /\ UNCHANGED <<labels, words, word_ts, spaces, params>>
    /\ UNCHANGED <<ctcVars, vadVars, wtVars, edVars, mainVars, dsVars, trVars>>

\* lines 369-384: one word of the utterance
SAWord ==
    /\ sa_pc = "loop"
    /\ j < Len(word_ts)
    /\ LET word_ts_stt_end == word_ts[j + 1]
           space_ok == j <= Len(spaces)
           space_stt_end == IF j = Len(spaces)
                            THEN <<word_ts_stt_end[2], word_ts_stt_end[2]>>
                            ELSE spaces[j + 1]
           stays == StaysInTurn(pos_prev, PosEnd(space_stt_end, params), end_point)
       IN  IF ~space_ok \/ j >= Len(words)
           THEN /\ sa_pc' = "error"
                /\ sa_err' = "IndexError"
                /\ UNCHANGED <<idx, pos_prev, j, end_point, speaker, string_out, riva_dict>>
           ELSE IF stays
           THEN /\ string_out' = PrintWord(string_out, words[j + 1])
                /\ riva_dict' = AddJsonToDict(riva_dict, words[j + 1], word_ts_stt_end,
                                              EntrySpeaker(labels, speaker), params)
                /\ pos_prev' = PosEnd(space_stt_end, params)
                /\ j' = j + 1
                /\ UNCHANGED <<idx, end_point, speaker, sa_pc, sa_err>>
           ELSE IF idx + 1 >= Len(labels)
           THEN /\ idx' = idx + 1
                /\ sa_pc' = "error"
                /\ sa_err' = "IndexError"
                /\ UNCHANGED <<pos_prev, j, end_point, speaker, string_out, riva_dict>>
           ELSE /\ idx' = idx + 1
                /\ end_point' = labels[idx + 2].end
                /\ speaker' = labels[idx + 2].speaker
                /\ string_out' = PrintWord(PrintTime(string_out, labels[idx + 2]),
                                           words[j + 1])
                /\ riva_dict' = AddJsonToDict(riva_dict, words[j + 1], word_ts_stt_end,
                                              EntrySpeaker(labels, labels[idx + 2].speaker),
                                              params)
                /\ pos_prev' = PosEnd(space_stt_end, params)
                /\ j' = j + 1
                /\ UNCHANGED <<sa_pc, sa_err>>
    /\ UNCHANGED <<labels, words, word_ts, spaces, params>>
    /\ UNCHANGED <<ctcVars, vadVars, wtVars, edVars, mainVars, dsVars, trVars>>

\* lines 386-390: the JSON record and the transcript are written
SAFinish ==
    /\ sa_pc = "loop"
    /\ j = Len(word_ts)
    /\ sa_pc' = "done"
    /\ UNCHANGED <<labels, words, word_ts, spaces, params, idx, pos_prev, j, end_point,
                   speaker, string_out, riva_dict, sa_err>>
    /\ UNCHANGED <<ctcVars, vadVars, wtVars, edVars, mainVars, dsVars, trVars>>

InitSA == CTCIdle /\ VADIdle /\ WTIdle /\ SAInit /\ OthersIdle

NextSA ==
    \/ SABegin
    \/ SAWord
    \/ SAFinish

SpecSA == InitSA /\ [][NextSA]_vars

\* ------------------------------------------------------------------
\* Alignment Scorer: eval_diarization

\* largest enumerated batch of eval_diarization
MaxBatch == 3

\* what the metric accumulates for one (reference, hypothesis) pair:
\* durations of false alarm, missed detection, confusion and reference
\* speech, in ticks
ScoreDetails ==
    {[fa |-> 0, miss |-> 0, conf |-> 0, total |-> 2],
     [fa |-> 1, miss |-> 0, conf |-> 0, total |-> 1],
     [fa |-> 0, miss |-> 1, conf |-> 1, total |-> 2]}

ZeroDetail == [fa |-> 0, miss |-> 0, conf |-> 0, total |-> 0]

\* the utterances of a batch: with a reference RTTM file and the detail
\* of its pair, or without one
EDUtterances ==
    {[has_rttm |-> TRUE, detail |-> d] : d \in ScoreDetails}
        \cup {[has_rttm |-> FALSE, detail |-> ZeroDetail]}

\* labels_to_pyannote_object(rttm_to_labels(rttm_file)) of utterance k
Reference(k) == [kind |-> "reference", utt |-> k]

\* rttm_to_labels(pred_rttm) of utterance k
PredLabels(k) == [kind |-> "labels", utt |-> k]

\* labels_to_pyannote_object(labels) of utterance k
Hypothesis(k) == [kind |-> "hypothesis", utt |-> k]

\* lines 555 and 564: the list is bound to a new empty list in every iteration
ResetList_Keep(l) == l
ResetList(l) == <<>>

\* the detail of the pair (ref, hyp)
PairDetail(afl, ref, hyp) == afl[ref.utt].detail

\* the details of the first n pairs of zip(refs, hyps), added up
RECURSIVE SumPairs(_, _, _, _)
SumPairs(afl, refs, hyps, n) ==
    IF n = 0 THEN ZeroDetail
    ELSE LET s == SumPairs(afl, refs, hyps, n - 1)
             d == PairDetail(afl, refs[n], hyps[n])
         IN  [fa |-> s.fa + d.fa, miss |-> s.miss + d.miss,
              conf |-> s.conf + d.conf, total |-> s.total + d.total]

\* get_DER: the rates over the pairs handed to it, each as a duration over
\* the reference duration `total`; error is the numerator of the total rate
GetDER(afl, refs, hyps) ==
    LET n == IF Len(refs) < Len(hyps) THEN Len(refs) ELSE Len(hyps)
        s == SumPairs(afl, refs, hyps, n)
    IN  [error |-> s.fa + s.miss + s.conf, fa |-> s.fa, miss |-> s.miss,
         conf |-> s.conf, total |-> s.total]

EDInit ==
    /\ audio_file_list \in SeqsUpTo(EDUtterances, MaxBatch)
    /\ ed_k = 0 /\ all_references = <<>> /\ all_hypotheses = <<>>
    /\ diar_result_labels_list = <<>> /\ der_out = <<>>
    /\ ed_pc = "start" /\ ed_err = "none"

\* line 551
EDBegin ==
    /\ ed_pc = "start"
    /\ diar_result_labels_list' = <<>>
    /\ ed_k' = 0
    /\ ed_pc' = "loop"
    /\ UNCHANGED <<audio_file_list, all_references, all_hypotheses, der_out, ed_err>>
    /\ UNCHANGED <<ctcVars, vadVars, wtVars, saVars, mainVars, dsVars, trVars>>

\* lines 552-569: one iteration of the loop over the batch
EDUtterance ==
    /\ ed_pc = "loop"
    /\ ed_k < Len(audio_file_list)
    /\ LET k == ed_k + 1
           u == audio_file_list[k]
       IN  /\ all_references' = IF u.has_rttm
                                THEN Append(ResetList(all_references), Reference(k))
                                ELSE <<>>
           /\ all_hypotheses' = Append(ResetList(all_hypotheses), Hypothesis(k))
           /\ diar_result_labels_list' = Append(diar_result_labels_list, PredLabels(k))
    /\ ed_k' = ed_k + 1
    /\ UNCHANGED <<audio_file_list, der_out, ed_pc, ed_err>>
    /\ UNCHANGED <<ctcVars, vadVars, wtVars, saVars, mainVars, dsVars, trVars>>

\* lines 571-579: the call of get_DER and the return; after a loop over
\* an empty batch the two lists are unbound
EDScore ==
    /\ ed_pc = "loop"
    /\ ed_k = Len(audio_file_list)
    /\ IF audio_file_list = <<>>
       THEN /\ ed_pc' = "error"
            /\ ed_err' = "UnboundLocalError"
            /\ UNCHANGED der_out
       ELSE /\ der_out' = GetDER(audio_file_list, all_references, all_hypotheses)
            /\ ed_pc' = "done"
            /\ UNCHANGED ed_err
    /\ UNCHANGED <<audio_file_list, ed_k, all_references, all_hypotheses,
                   diar_result_labels_list>>
    /\ UNCHANGED <<ctcVars, vadVars, wtVars, saVars, mainVars, dsVars, trVars>>

InitED == CTCIdle /\ VADIdle /\ WTIdle /\ SAIdle /\ EDInit /\ MainIdle /\ DSIdle /\ TRIdle

NextED ==
    \/ EDBegin
    \/ EDUtterance
    \/ EDScore

SpecED == InitED /\ [][NextED]_vars

\* ------------------------------------------------------------------
\* The batch driver: __main__ (lines 612-651), with the per-utterance loops
\* of get_speech_labels_list and write_json_and_transcript

\* limit = 2: the number of files the script keeps of the file list
Limit == 2

\* _get_silence_timestamps as a function of the arg-max trace: the loop of
\* lines 323-331 from frame i on, and the close of lines 333-334
RECURSIVE SilenceScan(_, _, _, _, _)
SilenceScan(pr, i, st, st_idx, acc) ==
    IF i >= Len(pr)
    THEN IF st = "blank" THEN Append(acc, <<st_idx, LastFrame(Len(pr))>>) ELSE acc
    ELSE LET c == pr[i + 1]
             closes == ClosesRun(st, c)
             st1 == IF closes THEN "" ELSE st
             opens == st1 = "" /\ c = SymbolIdx
         IN  SilenceScan(pr, i + 1,
                         IF opens THEN "blank" ELSE st1,
                         IF opens THEN i ELSE st_idx,
                         IF closes THEN Append(acc, <<st_idx, i - 1>>) ELSE acc)

GetSilenceTimestamps(pr) ==
    SilenceScan(pr, 1, IF pr[1] = SymbolIdx THEN "blank" ELSE "", 0, <<>>)

\* one iteration of the loop of get_speech_labels_list (lines 468-489) for
\* the utterance u: the exception it raises, or the three results
SpeechLabelsOf(u, p) ==
    LET r == GetSpaces(u.trans, u.timestamps)
        ns == SelectSeq(GetSilenceTimestamps(u.probs), LAMBDA x : KeepNonSpeech(x, p))
        w == WordTimestamps(r.spaces, u.timestamps, Len(u.probs))
        err == IF r.err # "none" THEN r.err
               ELSE IF ns = <<>> THEN "IndexError"
               ELSE IF w.err # "none" THEN w.err
               ELSE IF Len(r.word_list) # Len(w.windows) THEN "AssertionError"
               ELSE "none"
    IN  [err |-> err, trans_words |-> r.word_list, spaces |-> r.spaces,
         word_ts |-> w.windows]

\* the loop over the words of write_json_and_transcript (lines 369-384)
\* from word jj on, with the turn pointer at ix: the exception it raises
RECURSIVE TurnWalk(_, _, _, _, _, _, _, _)
TurnWalk(ls, wts, sps, wds, p, jj, ix, prev) ==
    IF jj = Len(wts) THEN "none"
    ELSE IF jj > Len(sps) \/ jj >= Len(wds) THEN "IndexError"
    ELSE LET sse == IF jj = Len(sps) THEN <<wts[jj + 1][2], wts[jj + 1][2]>>
                    ELSE sps[jj + 1]
             pos == PosEnd(sse, p)
         IN  IF StaysInTurn(prev, pos, ls[ix + 1].end)
             THEN TurnWalk(ls, wts, sps, wds, p, jj + 1, ix, pos)
             ELSE IF ix + 1 >= Len(ls) THEN "IndexError"
             ELSE TurnWalk(ls, wts, sps, wds, p, jj + 1, ix + 1, pos)

\* one iteration of the loop of write_json_and_transcript (lines 349-390):
\* the exception it raises
WriteRaises(ls, wts, sps, wds, p) ==
    IF ls = <<>> THEN "IndexError" ELSE TurnWalk(ls, wts, sps, wds, p, 0, 0, 0)

\* the utterances of a batch: the text "a a" or "a" over six frames, a
\* trace of silence or one with a single silent frame, and a diarizer
\* result of one long turn or of no turn
MainUtterances ==
    {[trans |-> t, timestamps |-> [i \in 1..Len(t) |-> i - 1], probs |-> pr, labels |-> ls] :
        t \in {<<"a", " ", "a">>, <<"a">>},
        pr \in {<<SymbolIdx, SymbolIdx, SymbolIdx, SymbolIdx, SymbolIdx, SymbolIdx>>,
                <<1, 1, SymbolIdx, 1, 1, 1>>},
        ls \in {<<[start |-> 0, end |-> 10000, speaker |-> "A"]>>, <<>>}}

MainInit ==
    /\ main_batch \in SeqsUpTo(MainUtterances, Limit)
    /\ main_params \in VADParamsSet
    /\ main_i = 0 /\ trans_words_list = <<>> /\ spaces_list = <<>>
    /\ word_ts_list = <<>> /\ main_labels_list = <<>> /\ json_written = {}
    /\ main_pc = "start" /\ main_err = "none"

\* lines 612-624 and 467: the models, the file list, the transcripts
MainTranscribe ==
    /\ main_pc = "start"
    /\ trans_words_list' = <<>> /\ spaces_list' = <<>> /\ word_ts_list' = <<>>
    /\ main_i' = 0
    /\ main_pc' = "labels"
    /\ UNCHANGED <<main_batch, main_params, main_labels_list, json_written, main_err>>
    /\ UNCHANGED <<ctcVars, vadVars, wtVars, saVars, edVars, dsVars, trVars>>

\* lines 468-489: one utterance of get_speech_labels_list; no handler
\* surrounds the call (line 626), an exception ends the script
MainSpeechLabels ==
    /\ main_pc = "labels"
    /\ main_i < Len(main_batch)
    /\ LET r == SpeechLabelsOf(main_batch[main_i + 1], main_params)
       IN  IF r.err # "none"
           THEN /\ main_pc' = "error"
                /\ main_err' = r.err
                /\ UNCHANGED <<main_i, trans_words_list, spaces_list, word_ts_list>>
           ELSE /\ trans_words_list' = Append(trans_words_list, r.trans_words)
                /\ spaces_list' = Append(spaces_list, r.spaces)
                /\ word_ts_list' = Append(word_ts_list, r.word_ts)
                /\ main_i' = main_i + 1
                /\ UNCHANGED <<main_pc, main_err>>
    /\ UNCHANGED <<main_batch, main_params, main_labels_list, json_written>>
    /\ UNCHANGED <<ctcVars, vadVars, wtVars, saVars, edVars, dsVars, trVars>>

\* lines 632-642: the VAD manifest, the diarizer and eval_diarization,
\* which returns the turns of every utterance and raises on an empty batch
MainDiarize ==
    /\ main_pc = "labels"
    /\ main_i = Len(main_batch)
    /\ IF main_batch = <<>>
       THEN /\ main_pc' = "error"
            /\ main_err' = "UnboundLocalError"
            /\ UNCHANGED <<main_labels_list, main_i>>
       ELSE /\ main_labels_list' = [k \in 1..Len(main_batch) |-> main_batch[k].labels]
            /\ main_i' = 0
            /\ main_pc' = "write"
            /\ UNCHANGED main_err
    /\ UNCHANGED <<main_batch, main_params, trans_words_list, spaces_list, word_ts_list,
                   json_written>>
    /\ UNCHANGED <<ctcVars, vadVars, wtVars, saVars, edVars, dsVars, trVars>>

\* lines 349-390: one utterance of write_json_and_transcript; no handler
\* surrounds the call (line 644) either
MainWrite ==
    /\ main_pc = "write"
    /\ main_i < Len(main_batch)
    /\ LET k == main_i + 1
           e == WriteRaises(main_labels_list[k], word_ts_list[k], spaces_list[k],
                            trans_words_list[k], main_params)
       IN  IF e # "none"
           THEN /\ main_pc' = "error"
                /\ main_err' = e
                /\ UNCHANGED <<main_i, json_written>>
           ELSE /\ json_written' = json_written \cup {k}
                /\ main_i' = main_i + 1
                /\ UNCHANGED <<main_pc, main_err>>
    /\ UNCHANGED <<main_batch, main_params, trans_words_list, spaces_list, word_ts_list,
                   main_labels_list>>
    /\ UNCHANGED <<ctcVars, vadVars, wtVars, saVars, edVars, dsVars, trVars>>

\* the script ends after the last utterance is written
MainEnd ==
    /\ main_pc = "write"
    /\ main_i = Len(main_batch)
    /\ main_pc' = "done"
    /\ UNCHANGED <<main_batch, main_params, main_i, trans_words_list, spaces_list,
                   word_ts_list, main_labels_list, json_written, main_err>>
    /\ UNCHANGED <<ctcVars, vadVars, wtVars, saVars, edVars, dsVars, trVars>>

InitMain == CTCIdle /\ VADIdle /\ WTIdle /\ SAIdle /\ EDIdle /\ MainInit /\ DSIdle /\ TRIdle

NextMain ==
    \/ MainTranscribe
    \/ MainSpeechLabels
    \/ MainDiarize
    \/ MainWrite
    \/ MainEnd

SpecMain == InitMain /\ [][NextMain]_vars

\* ------------------------------------------------------------------
\* TextNormalizationTestDataset.__init__ (text_normalization/test_dataset.py)

\* largest enumerated number of instances of the data file
MaxInsts == 2

\* the modes named by the class docstring
TN_MODE == "tn"
ITN_MODE == "itn"
JOINT_MODE == "joint"
Modes == {TN_MODE, ITN_MODE, JOINT_MODE}

\* the names of the constants module the constructor reads
INST_BACKWARD == "BACKWARD"
INST_FORWARD == "FORWARD"
INST_DIRECTIONS == <<INST_BACKWARD, INST_FORWARD>>
SIL_WORD == "sil"
SELF_WORD == "<self>"
SPECIAL_WORDS == {SIL_WORD, SELF_WORD}
PUNCT_TAG == "PUNCT"

\* basic_tokenize: the tokens of a string, split at white space
BasicTokenize(w) ==
    CASE w = "1 2" -> <<"1", "2">>
      [] w = "one two" -> <<"one", "two">>
      [] OTHER -> <<w>>

\* basic_tokenize(' '.join(ws)): the tokens of the words, in order
RECURSIVE TokensOf(_)
TokensOf(ws) ==
    IF ws = <<>> THEN <<>> ELSE BasicTokenize(Head(ws)) \o TokensOf(Tail(ws))

\* the instances of the data file: sequences of (class, written word,
\* spoken word)
Instances ==
    LET plain == [cls |-> "PLAIN", w_word |-> "a", s_word |-> SELF_WORD]
        punct == [cls |-> "PUNCT", w_word |-> ".", s_word |-> SIL_WORD]
        card == [cls |-> "CARDINAL", w_word |-> "2", s_word |-> "two"]
        multi == [cls |-> "CARDINAL", w_word |-> "1 2", s_word |-> "one two"]
    IN  {<<plain>>, <<punct>>, <<card, punct>>, <<multi, plain>>}

\* lines 57-70: the locals of one instance
NoSpans ==
    [processed_w_words |-> <<>>, processed_s_words |-> <<>>,
     processed_classes_tn |-> <<>>, processed_classes_itn |-> <<>>,
     processed_nb_spans_tn |-> 0, processed_nb_spans_itn |-> 0,
     w_span_starts |-> <<>>, w_span_ends |-> <<>>,
     processed_s_span_starts |-> <<>>, processed_s_span_ends |-> <<>>,
     w_word_idx |-> 0, s_word_idx |-> 0]

\* lines 71-89: the loop over the first n words of an instance
RECURSIVE ProcessWords(_, _)
ProcessWords(inst, n) ==
    IF n = 0 THEN NoSpans
    ELSE LET a == ProcessWords(inst, n - 1)
             t == inst[n]
             w_end == a.w_word_idx + Len(BasicTokenize(t.w_word))
             b == [a EXCEPT !.w_span_starts = Append(@, a.w_word_idx),
                            !.w_word_idx = w_end,
                            !.w_span_ends = Append(@, w_end),
                            !.processed_nb_spans_tn = @ + 1]
         IN  IF t.s_word = SIL_WORD
             THEN [b EXCEPT !.processed_classes_tn = Append(@, PUNCT_TAG)]
             ELSE LET s1 == IF t.s_word = SELF_WORD
                            THEN Append(b.processed_s_words, t.w_word)
                            ELSE b.processed_s_words
                      s2 == IF t.s_word \notin SPECIAL_WORDS
                            THEN Append(s1, t.s_word) ELSE s1
                      s_end == b.s_word_idx + Len(BasicTokenize(s2[Len(s2)]))
                  IN  [b EXCEPT !.processed_s_words = s2,
                                !.processed_nb_spans_itn = @ + 1,
                                !.processed_classes_tn = Append(@, t.cls),
                                !.processed_classes_itn = Append(@, t.cls),
                                !.processed_s_span_starts = Append(@, b.s_word_idx),
                                !.s_word_idx = s_end,
                                !.processed_s_span_ends = Append(@, s_end),
                                !.processed_w_words = Append(@, t.w_word)]

\* the w_words of an instance
WWords(inst) == [n \in 1..Len(inst) |-> inst[n].w_word]

\* lines 92-94 and 101-103: the direction is skipped in this mode
SkipsDirection_Swapped(direction, m) ==
    \/ direction = INST_BACKWARD /\ m = ITN_MODE
    \/ direction = INST_FORWARD /\ m = TN_MODE
SkipsDirection(direction, m) ==
    \/ direction = INST_BACKWARD /\ m = TN_MODE
    \/ direction = INST_FORWARD /\ m = ITN_MODE

\* lines 92-117: the example of one direction, appended to the seven lists
AddExample(l, inst, a, direction, m) ==
    IF SkipsDirection(direction, m) THEN l
    ELSE IF direction = INST_BACKWARD
    THEN [directions |-> Append(l.directions, direction),
          inputs |-> Append(l.inputs, TokensOf(a.processed_s_words)),
          targets |-> Append(l.targets, a.processed_w_words),
          classes |-> Append(l.classes, a.processed_classes_itn),
          nb_spans |-> Append(l.nb_spans, a.processed_nb_spans_itn),
          span_starts |-> Append(l.span_starts, a.processed_s_span_starts),
          span_ends |-> Append(l.span_ends, a.processed_s_span_ends)]
    ELSE [directions |-> Append(l.directions, direction),
          inputs |-> Append(l.inputs, TokensOf(WWords(inst))),
          targets |-> Append(l.targets, a.processed_s_words),
          classes |-> Append(l.classes, a.processed_classes_tn),
          nb_spans |-> Append(l.nb_spans, a.processed_nb_spans_tn),
          span_starts |-> Append(l.span_starts, a.w_span_starts),
          span_ends |-> Append(l.span_ends, a.w_span_ends)]

\* line 91: the loop over the first n directions
RECURSIVE AddExamples(_, _, _, _, _)
AddExamples(l, inst, a, m, n) ==
    IF n = 0 THEN l
    ELSE AddExample(AddExamples(l, inst, a, m, n - 1), inst, a, INST_DIRECTIONS[n], m)

\* __len__
DatasetLen == Len(inputs)

DSInit ==
    /\ insts \in SeqsUpTo(Instances, MaxInsts)
    /\ mode \in Modes
    /\ ds_i = 0 /\ directions = <<>> /\ inputs = <<>> /\ targets = <<>>
    /\ classes = <<>> /\ nb_spans = <<>> /\ span_starts = <<>> /\ span_ends = <<>>
    /\ examples = <<>> /\ ds_pc = "start"

\* lines 42-54: the data file is read, the seven lists are empty
DSBegin ==
    /\ ds_pc = "start"
    /\ directions' = <<>> /\ inputs' = <<>> /\ targets' = <<>> /\ classes' = <<>>
    /\ nb_spans' = <<>> /\ span_starts' = <<>> /\ span_ends' = <<>>
    /\ ds_i' = 0
    /\ ds_pc' = "loop"
    /\ UNCHANGED <<insts, mode, examples>>
    /\ UNCHANGED <<ctcVars, vadVars, wtVars, saVars, edVars, mainVars, trVars>>

\* lines 55-117: one instance of the data file
DSInstance ==
    /\ ds_pc = "loop"
    /\ ds_i < Len(insts)
    /\ LET inst == insts[ds_i + 1]
           l == AddExamples([directions |-> directions, inputs |-> inputs,
                             targets |-> targets, classes |-> classes,
                             nb_spans |-> nb_spans, span_starts |-> span_starts,
                             span_ends |-> span_ends],
                            inst, ProcessWords(inst, Len(inst)), mode,
                            Len(INST_DIRECTIONS))
       IN  /\ directions' = l.directions /\ inputs' = l.inputs
           /\ targets' = l.targets /\ classes' = l.classes
           /\ nb_spans' = l.nb_spans /\ span_starts' = l.span_starts
           /\ span_ends' = l.span_ends
    /\ ds_i' = ds_i + 1
    /\ UNCHANGED <<insts, mode, examples, ds_pc>>
    /\ UNCHANGED <<ctcVars, vadVars, wtVars, saVars, edVars, mainVars, trVars>>

\* the smallest of the lengths of the seven lists
ZipLen ==
    CHOOSE n \in {Len(directions), Len(inputs), Len(targets), Len(classes),
                  Len(nb_spans), Len(span_starts), Len(span_ends)} :
        \A k \in {Len(directions), Len(inputs), Len(targets), Len(classes),
                  Len(nb_spans), Len(span_starts), Len(span_ends)} : n <= k

\* lines 118-128: the examples, the zip of the seven lists
DSFinish ==
    /\ ds_pc = "loop"
    /\ ds_i = Len(insts)
    /\ examples' = [n \in 1..ZipLen |->
                       <<directions[n], inputs[n], targets[n], classes[n],
                         nb_spans[n], span_starts[n], span_ends[n]>>]
    /\ ds_pc' = "done"
    /\ UNCHANGED <<insts, mode, ds_i, directions, inputs, targets, classes, nb_spans,
                   span_starts, span_ends>>
    /\ UNCHANGED <<ctcVars, vadVars, wtVars, saVars, edVars, mainVars, trVars>>

InitDS == CTCIdle /\ VADIdle /\ WTIdle /\ SAIdle /\ EDIdle /\ MainIdle /\ DSInit /\ TRIdle

NextDS ==
    \/ DSBegin
    \/ DSInstance
    \/ DSFinish

SpecDS == InitDS /\ [][NextDS]_vars

\* ------------------------------------------------------------------
\* EncDecCTCModel4Diar.transcribe (lines 226-313)

MaxFiles == 3
MaxBatchSize == 3

\* the audio files are told apart by their names
FileNames == 1..MaxFiles

\* lists of at most MaxFiles files, no file twice
FileLists ==
    {l \in SeqsUpTo(FileNames, MaxFiles) :
        \A a, b \in 1..Len(l) : a # b => l[a] # l[b]}

\* a part of an entry that the call leaves out
NoPart == [part |-> "none", file |-> 0]

\* what forward and the decoder give for an audio file: its logits, its text
\* and its timestamps, each told apart by the file it was computed from
LogitsOf(f) == [part |-> "logits", file |-> f]
TextOf(f) == [part |-> "text", file |-> f]
TimestampsOf(f) == [part |-> "timestamps", file |-> f]

\* an entry of the returned list
Entry(text, lg, ts) == [text |-> text, logits |-> lg, timestamps |-> ts]

\* the dataloader of line 271: the next batch_size files of the list, in the
\* list's order, fewer at the end of the list
TestBatch(files, done, bs) ==
    SubSeq(files, done + 1, IF done + bs < Len(files) THEN done + bs ELSE Len(files))

\* lines 276-277: the loop over the rows of the batch leaves lg at the logits
\* of the last row
LoopLg(test_batch) == LogitsOf(test_batch[Len(test_batch)])

\* lines 282-298: what one batch adds to `hypotheses`
BatchHypotheses(test_batch, lp, rh, rtlt) ==
    IF lp
    THEN <<Entry(NoPart, LoopLg(test_batch), NoPart)>>
    ELSE IF rtlt
         THEN <<Entry(TextOf(test_batch[1]), LoopLg(test_batch),
                      TimestampsOf(test_batch[1]))>>
         ELSE [i \in 1..Len(test_batch) |->
                  Entry(TextOf(test_batch[i]),
                        IF rh THEN LogitsOf(test_batch[i]) ELSE NoPart,
                        NoPart)]

TRInit ==
    /\ paths2audio_files \in FileLists
    /\ batch_size \in 1..MaxBatchSize
    /\ logprobs \in BOOLEAN
    /\ tr_return_hypotheses \in BOOLEAN
    /\ return_text_with_logprobs_and_ts \in BOOLEAN
    /\ tr_done = 0 /\ tr_hypotheses = <<>>
    /\ tr_pc = "start" /\ tr_err = "none"

\* lines 235-245: the empty file list returns {} at once; both flags raise
TRBegin ==
    /\ tr_pc = "start"
    /\ IF Len(paths2audio_files) = 0
       THEN tr_pc' = "done_dict" /\ UNCHANGED tr_err
       ELSE IF tr_return_hypotheses /\ logprobs
            THEN tr_pc' = "error" /\ tr_err' = "ValueError"
            ELSE tr_pc' = "loop" /\ UNCHANGED tr_err
    /\ tr_hypotheses' = <<>>
    /\ tr_done' = 0
    /\ UNCHANGED <<paths2audio_files, batch_size, logprobs, tr_return_hypotheses,
                   return_text_with_logprobs_and_ts>>
    /\ UNCHANGED <<ctcVars, vadVars, wtVars, saVars, edVars, mainVars, dsVars>>

\* lines 272-302: one batch of the dataloader
TRBatch ==
    /\ tr_pc = "loop"
    /\ tr_done < Len(paths2audio_files)
    /\ LET test_batch == TestBatch(paths2audio_files, tr_done, batch_size)
       IN  /\ tr_hypotheses' =
                  tr_hypotheses \o BatchHypotheses(test_batch, logprobs,
                                                   tr_return_hypotheses,
                                                   return_text_with_logprobs_and_ts)
           /\ tr_done' = tr_done + Len(test_batch)
    /\ UNCHANGED <<paths2audio_files, batch_size, logprobs, tr_return_hypotheses,
                   return_text_with_logprobs_and_ts, tr_pc, tr_err>>
    /\ UNCHANGED <<ctcVars, vadVars, wtVars, saVars, edVars, mainVars, dsVars>>

\* line 313: the list is returned after the last batch
TRReturn ==
    /\ tr_pc = "loop"
    /\ tr_done = Len(paths2audio_files)
    /\ tr_pc' = "done"
    /\ UNCHANGED <<paths2audio_files, batch_size, logprobs, tr_return_hypotheses,
                   return_text_with_logprobs_and_ts, tr_done, tr_hypotheses, tr_err>>
    /\ UNCHANGED <<ctcVars, vadVars, wtVars, saVars, edVars, mainVars, dsVars>>

InitTR ==
    CTCIdle /\ VADIdle /\ WTIdle /\ SAIdle /\ EDIdle /\ MainIdle /\ DSIdle /\ TRInit

NextTR ==
    \/ TRBegin
    \/ TRBatch
    \/ TRReturn

SpecTR == InitTR /\ [][NextTR]_vars

\* ==================================================================
\* Properties of the Frame Decoder (SpecCTC)

\* the loop of lines 98-102 has consumed every frame of the row
CTCLoopOver == ctc_pc \in {"loop", "done", "error"} /\ pdx = Len(prediction)

\* s without its leading frames equal to x
RECURSIVE DropWhile(_, _)
DropWhile(s, x) ==
    IF s = <<>> \/ Head(s) # x THEN s ELSE DropWhile(Tail(s), x)

\* E is an expansion of the token sequence T: blank frames, then the first
\* token of T in one or more consecutive frames, then an expansion of the
\* rest of T, which starts with a blank frame when the next token is the same
RECURSIVE IsExpansion(_, _, _)
IsExpansion(E, T, blank) ==
    LET E1 == DropWhile(E, blank)
    IN  IF T = <<>> THEN E1 = <<>>
        ELSE /\ E1 # <<>>
             /\ Head(T) # blank
             /\ Head(E1) = Head(T)
             /\ IsExpansion(DropWhile(E1, Head(T)), Tail(T), blank)

\* the token sequences a row can be an expansion of
TokenSeqs(E, blank) == SeqsUpTo(Range(E) \ {blank}, Len(E))

\* C1: CTC collapse round trip. Whenever the decoded row is an expansion of a
\* sequence T of non-blank tokens, the loop emits exactly T, with one
\* timestamp per token, and the hypothesis returned with timestamps has one
\* character and one timestamp per token of T.
C1_RoundTrip ==
    CTCLoopOver =>
        \A T \in TokenSeqs(prediction, Len(vocabulary)) :
            IsExpansion(prediction, T, Len(vocabulary)) =>
                /\ decoded_prediction = T
                /\ Len(decoded_timing_list) = Len(T)
                /\ (ctc_pc = "done" /\ return_timestamps) =>
                      /\ Len(hypotheses[1].text) = Len(T)
                      /\ Len(ts_out[1]) = Len(T)

\* a hypothesis was returned for the expansion 1,1,blank,1 of the tokens 1,1
C1_Witness ==
    /\ ctc_pc = "done"
    /\ return_timestamps
    /\ prediction = <<1, 1, 2, 1>>
    /\ IsExpansion(prediction, <<1, 1>>, Len(vocabulary))

\* C2: every recorded timestamp is the first frame of the run that produced
\* its token: the frame holds the emitted token and the frame before it (if
\* any) holds another label; and the row 5,5,0,0,7,7,7,0,5 with blank id 0
\* decodes to the tokens 5,7,5 at frames 0,4,8.
C2_FirstFrameOfRun ==
    /\ ctc_pc \in {"loop", "done", "error"} =>
          /\ Len(decoded_timing_list) = Len(decoded_prediction)
          /\ \A i \in 1..Len(decoded_timing_list) :
                LET t == decoded_timing_list[i]
                IN  /\ t \in 0..(Len(prediction) - 1)
                    /\ prediction[t + 1] = decoded_prediction[i]
                    /\ (t = 0 \/ prediction[t] # prediction[t + 1])
    /\ (CTCLoopOver /\ prediction = ExamplePrediction /\ Len(vocabulary) = 0) =>
          /\ decoded_prediction = <<5, 7, 5>>
          /\ decoded_timing_list = <<0, 4, 8>>

\* the loop has run over the whole example row with blank id 0
C2_Witness ==
    /\ CTCLoopOver
    /\ prediction = ExamplePrediction
    /\ blank_id = 0
    /\ Len(decoded_timing_list) = 3

\* every frame of the decoded row is the blank id
AllBlank == \A i \in 1..Len(prediction) : prediction[i] = Len(vocabulary)

\* C3: a row of blank frames only, of any length, decoded with timestamps,
\* raises no error and gives the empty text and the empty timestamp list.
C3_AllBlankEmpty ==
    (ctc_pc \in {"loop", "done", "error"} /\ return_timestamps /\ AllBlank) =>
        /\ ctc_err = "none"
        /\ ctc_pc # "error"
        /\ decoded_prediction = <<>>
        /\ ctc_pc = "done" =>
              /\ hypotheses[1].text = <<>>
              /\ ts_out = <<(<<>>)>>

\* a hypothesis was returned for a row of three blank frames
C3_Witness ==
    /\ ctc_pc = "done"
    /\ return_timestamps
    /\ AllBlank
    /\ Len(prediction) = 3
    /\ Len(vocabulary) = 2

\* every id of the row is a vocabulary index or the blank id
IdsInRange == \A i \in 1..Len(predictions) : predictions[i] \in 0..Len(vocabulary)

\* C4: a row whose ids are all in range is decoded without an error,
\* with and without timestamps.
C4_NoRaiseInRange == IdsInRange => ctc_err = "none"

\* ==================================================================
\* Properties of the voice-activity labels (SpecVAD)

\* frame f lies in a kept non-speech interval
InNonSpeech(f) == \E i \in 1..Len(non_speech) : non_speech[i][1] <= f /\ f <= non_speech[i][2]

\* the time span of frame f lies in an emitted speech interval
InSpeech(f) ==
    \E i \in 1..Len(speech_labels) :
        /\ speech_labels[i].start <= FrameTime(f, vad_params)
        /\ FrameTime(f + 1, vad_params) <= speech_labels[i].end

\* C5: partition completeness. Once the speech labels are returned, every frame
\* of the utterance lies in a kept non-speech interval or in a speech interval.
C5_PartitionComplete ==
    vad_pc = "done" => \A f \in 0..(Len(probs) - 1) : InNonSpeech(f) \/ InSpeech(f)

\* ==================================================================
\* Properties of the Word Timer (SpecWT)

\* the number of space-delimited tokens of a text
NumTokens(tr) == Cardinality({k \in 1..Len(tr) : tr[k] = " "}) + 1

\* a non-empty text that neither starts nor ends with a space
NoOuterSpace(tr) == tr # <<>> /\ tr[1] # " " /\ tr[Len(tr)] # " "

\* C6: word count conservation. For a non-empty text without leading or
\* trailing space, the Word Timer raises no error and returns as many words and
\* as many timing windows as the text has space-delimited tokens.
C6_WordCountConserved ==
    NoOuterSpace(trans) =>
        /\ wt_err = "none"
        /\ wt_pc = "done" =>
              /\ Len(trans_words) = NumTokens(trans)
              /\ Len(word_timetamps) = NumTokens(trans)

\* ==================================================================
\* Properties of the Speaker Attributor (SpecSA)

\* the inputs of the attribution example: "hi" [0,10], "there" [11,20], the
\* turns (0,15,A) and (15,30,B), a stride of one second and no offset
ExampleInputs ==
    /\ words = <<(<<"h", "i">>), (<<"t", "h", "e", "r", "e">>)>>
    /\ word_ts = <<(<<0, 10>>), (<<11, 20>>)>>
    /\ labels = ExampleLabels
    /\ params = [time_stride |-> 1000, offset |-> 0]

\* C7: attribution example. On the example's inputs the run completes and
\* records speaker A for "hi" and speaker B for "there".
C7_ExampleAttribution ==
    ExampleInputs =>
        /\ sa_err = "none"
        /\ sa_pc = "done" =>
              /\ Len(riva_dict.words) = 2
              /\ riva_dict.words[1].speaker_label = "A"
              /\ riva_dict.words[2].speaker_label = "B"

\* the time span of a recorded word meets no speaker turn
OutsideEveryTurn(e) ==
    \A i \in 1..Len(labels) : e.end_time < labels[i].start \/ labels[i].end < e.start_time

\* C8: no word whose time lies outside every speaker turn is given a speaker
\* label: no such word has an entry in the words list of the record.
C8_NoLabelOutsideTurns ==
    sa_pc \in {"loop", "done", "error"} =>
        \A i \in 1..Len(riva_dict.words) : ~OutsideEveryTurn(riva_dict.words[i])

\* the words start at strictly increasing frames
IncreasingStarts == \A i \in 1..(Len(word_ts) - 1) : word_ts[i][1] < word_ts[i + 1][1]

\* C9: attribution monotonicity. For words with strictly increasing starts
\* (the enumerated turns are time-ordered and do not overlap), no step of the
\* word loop decreases the turn pointer, and the pointer stays a valid index
\* into the turn list.
C9_PointerMonotoneValid ==
    [][(IncreasingStarts /\ sa_pc = "loop") =>
          (idx' >= idx /\ 0 <= idx' /\ idx' < Len(labels))]_vars

\* the number of markers written to the transcript before its n-th word
RECURSIVE MarkersBefore(_, _)
MarkersBefore(out, n) ==
    IF out = <<>> THEN 0
    ELSE IF Head(out).kind = "word"
         THEN IF n = 1 THEN 0 ELSE MarkersBefore(Tail(out), n - 1)
         ELSE 1 + MarkersBefore(Tail(out), n)

\* the speaker of the last marker written before the n-th word
RECURSIVE LastMarkerSpeaker(_, _, _)
LastMarkerSpeaker(out, n, spk) ==
    IF out = <<>> THEN spk
    ELSE IF Head(out).kind = "word"
         THEN IF n = 1 THEN spk ELSE LastMarkerSpeaker(Tail(out), n - 1, spk)
         ELSE LastMarkerSpeaker(Tail(out), n, Head(out).speaker)

\* C10: on completion the words list of the record has one entry per word of
\* the utterance, in the words' order, and each entry's speaker is the speaker
\* of the turn the pointer stood at when the word was written, which is the
\* speaker of the last marker written before that word.
C10_OneEntryPerWord ==
    sa_pc = "done" =>
        /\ Len(riva_dict.words) = Len(words)
        /\ \A i \in 1..Len(words) :
              LET e == riva_dict.words[i]
                  m == MarkersBefore(string_out, i)
              IN  /\ e.word = words[i]
                  /\ e.start_time = params.offset + word_ts[i][1] * params.time_stride
                  /\ m \in 1..Len(labels)
                  /\ e.speaker_label = labels[m].speaker
                  /\ e.speaker_label = LastMarkerSpeaker(string_out, i, "")

\* an utterance of two words or more was completed with the pointer advanced
\* to a turn of another speaker
C10_Witness ==
    /\ sa_pc = "done"
    /\ Len(words) >= 2
    /\ idx >= 1
    /\ labels[idx + 1].speaker # labels[1].speaker

\* ------------------------------------------------------------------
\* Claims about the emit rule and the timestamps of the Frame Decoder

\* C16: greedy CTC emit rule. previous starts as the blank id; at frame i
\* with label p the loop appends p and records i if and only if
\* (p # previous or previous = blank) and p # blank, and appends nothing
\* otherwise; then previous is p; no blank is ever among the emitted tokens.
C16_EmitRule ==
    [][LET blank == Len(vocabulary)
       IN  /\ ctc_pc = "start" => previous' = blank
           /\ (ctc_pc = "loop" /\ pdx < Len(prediction)) =>
                 LET p == prediction[pdx + 1]
                     emit == (p # previous \/ previous = blank) /\ p # blank
                 IN  /\ decoded_prediction' =
                            IF emit THEN Append(decoded_prediction, p)
                            ELSE decoded_prediction
                     /\ decoded_timing_list' =
                            IF emit THEN Append(decoded_timing_list, pdx)
                            ELSE decoded_timing_list
                     /\ previous' = p
                     /\ \A i \in 1..Len(decoded_prediction') :
                            decoded_prediction'[i] # blank]_vars

\* the loop has run over 1,1,blank,1 and blank,blank: the repeated 1 was
\* emitted once, and again after the blank
C16_Witness ==
    /\ CTCLoopOver
    /\ blank_id = 2
    /\ prediction = <<1, 1, 2, 1>>
    /\ decoded_prediction = <<1, 1>>
    /\ decoded_timing_list = <<0, 3>>
    /\ previous = 1

\* C17: a hypothesis returned with timestamps has as many timestamps as its
\* text has characters, and the timestamps are strictly increasing frame
\* indices of the decoded row, from 0 to its length minus one.
C17_TimestampsWellFormed ==
    (ctc_pc = "done" /\ return_timestamps) =>
        LET ts == ts_out[1]
        IN  /\ Len(ts) = Len(hypotheses[1].text)
            /\ \A i \in 1..Len(ts) : ts[i] \in 0..(Len(prediction) - 1)
            /\ \A i \in 1..(Len(ts) - 1) : ts[i] < ts[i + 1]

\* a hypothesis with three characters and three timestamps was returned
\* for a row of four frames
C17_Witness ==
    /\ ctc_pc = "done"
    /\ return_timestamps
    /\ Len(prediction) = 4
    /\ Len(hypotheses[1].text) = 3
    /\ Len(ts_out[1]) = 3

\* ------------------------------------------------------------------
\* Claims about the silence scan and the width filter

\* _get_silence_timestamps has returned
ScanOver == vad_pc \in {"filter", "speech", "done", "error"}

\* frame f (0-based) lies in a silence run: some frame s <= f holds the
\* silence index and every frame from s to f holds class 0 or the silence index
InSilenceAt(f) ==
    \E s \in 0..f :
        /\ probs[s + 1] = SymbolIdx
        /\ \A g \in s..f : probs[g + 1] \in {0, SymbolIdx}

\* the maximal runs of frames in silence, as closed intervals
SilenceRuns ==
    {<<s, e>> \in (0..(Len(probs) - 1)) \X (0..(Len(probs) - 1)) :
        /\ s <= e
        /\ \A f \in s..e : InSilenceAt(f)
        /\ (s = 0 \/ ~InSilenceAt(s - 1))
        /\ (e = Len(probs) - 1 \/ ~InSilenceAt(e + 1))}

\* C18: the scan returns exactly the runs of the two-state scan, once each
\* and in the order of their frames: a run starts at a frame holding the
\* silence index that is not already in a run, goes on over frames of class
\* 0 or the silence index, and ends before the first frame of another class
\* or at the last frame; a frame of class 0 outside a run opens none.
C18_ScanIntervals ==
    ScanOver =>
        /\ Range(blanks) = SilenceRuns
        /\ Len(blanks) = Cardinality(SilenceRuns)
        /\ \A i \in 1..Len(blanks) : probs[blanks[i][1] + 1] = SymbolIdx
        /\ \A i \in 1..(Len(blanks) - 1) : blanks[i][1] < blanks[i + 1][1]

\* the trace silence,0,other,0,silence,0 was scanned: the first run ends
\* with a class-0 frame, the class-0 frame after it opens no run, and the
\* last run is closed at the last frame
C18_Witness ==
    /\ ScanOver
    /\ probs = <<SymbolIdx, 0, 1, 0, SymbolIdx, 0>>
    /\ blanks = <<(<<0, 1>>), (<<4, 5>>)>>

\* C19: the returned intervals are well formed and ordered: each has
\* 0 <= start <= end <= numFrames - 1, the starts are strictly increasing
\* and the end of an interval is below the start of the next.
C19_IntervalsOrdered ==
    ScanOver =>
        /\ \A i \in 1..Len(blanks) :
              /\ 0 <= blanks[i][1]
              /\ blanks[i][1] <= blanks[i][2]
              /\ blanks[i][2] <= Len(probs) - 1
        /\ \A i \in 1..(Len(blanks) - 1) :
              /\ blanks[i][1] < blanks[i + 1][1]
              /\ blanks[i][2] < blanks[i + 1][1]

\* three intervals were returned, the last one closed at the last frame
C19_Witness ==
    /\ ScanOver
    /\ Len(blanks) = 3
    /\ blanks[3][2] = Len(probs) - 1

\* number of frames of the closed interval x
Width(x) == x[2] - x[1] + 1

\* C20: the filter keeps an interval if and only if its width in frames
\* is at least params['threshold'], in the order of the scan.
C20_MinWidthFilter ==
    vad_pc \in {"speech", "done", "error"} =>
        non_speech = SelectSeq(blanks, LAMBDA x : Width(x) >= vad_params.threshold)

\* ------------------------------------------------------------------
\* Claims about eval_diarization (SpecED)

\* the loop over the batch is over: the lists are as get_DER receives them
EDLoopOver ==
    /\ ed_pc \in {"loop", "done"}
    /\ ed_k = Len(audio_file_list)
    /\ audio_file_list # <<>>

\* the references of the first n utterances that have one, in batch order
RECURSIVE ReferencesUpTo(_)
ReferencesUpTo(n) ==
    IF n = 0 THEN <<>>
    ELSE IF audio_file_list[n].has_rttm
         THEN Append(ReferencesUpTo(n - 1), Reference(n))
         ELSE ReferencesUpTo(n - 1)

\* C11: when get_DER is called after a batch of n utterances, the
\* hypothesis list holds the hypothesis of each of the n utterances and
\* the reference list the reference of each utterance that has one.
C11_WholeBatchScored ==
    EDLoopOver =>
        /\ all_hypotheses = [k \in 1..Len(audio_file_list) |-> Hypothesis(k)]
        /\ all_references = ReferencesUpTo(Len(audio_file_list))

\* C12: when the reference file of an utterance is missing, the loop still
\* goes over the whole batch without an error, no reference of that
\* utterance is among the references handed to get_DER, its labels are in
\* diar_result_labels_list at its position, and the i-th reference and the
\* i-th hypothesis handed to get_DER belong to the same utterance.
C12_MissingReferenceTolerated ==
    (EDLoopOver /\ \E k \in 1..Len(audio_file_list) : ~audio_file_list[k].has_rttm) =>
        /\ ed_err = "none"
        /\ \A k \in 1..Len(audio_file_list) :
              ~audio_file_list[k].has_rttm =>
                  \A i \in 1..Len(all_references) : all_references[i].utt # k
        /\ diar_result_labels_list = [k \in 1..Len(audio_file_list) |-> PredLabels(k)]
        /\ \A i \in 1..Len(all_references) :
              /\ i <= Len(all_hypotheses)
              /\ all_references[i].utt = all_hypotheses[i].utt

\* get_DER was called for a batch of three utterances of which the second
\* has no reference file
C12_Witness ==
    /\ ed_pc = "done"
    /\ Len(audio_file_list) = 3
    /\ audio_file_list[1].has_rttm
    /\ ~audio_file_list[2].has_rttm
    /\ audio_file_list[3].has_rttm
    /\ Len(diar_result_labels_list) = 3
    /\ Len(all_references) = 1

\* the details of the first n utterances of the batch that have a
\* reference, added up
RECURSIVE BatchDetail(_)
BatchDetail(n) ==
    IF n = 0 THEN ZeroDetail
    ELSE LET s == BatchDetail(n - 1)
             d == IF audio_file_list[n].has_rttm
                  THEN audio_file_list[n].detail ELSE ZeroDetail
         IN  [fa |-> s.fa + d.fa, miss |-> s.miss + d.miss,
              conf |-> s.conf + d.conf, total |-> s.total + d.total]

\* C14: the reported total error rate, error / total, equals false alarm
\* plus miss plus confusion summed over the batch, divided by the
\* reference duration of the batch (compared as exact fractions).
C14_DERDecomposition ==
    LET b == BatchDetail(Len(audio_file_list))
    IN  (ed_pc = "done" /\ b.total > 0 /\ der_out.total > 0) =>
            der_out.error * b.total = (b.fa + b.miss + b.conf) * der_out.total

\* ------------------------------------------------------------------
\* Claims about TextNormalizationTestDataset (SpecDS)

\* C15: after ds_i instances, the seven lists have the same length, which
\* is what __len__ returns; in 'tn' mode there is one example per instance
\* and each is forward, in 'itn' mode one per instance and each is
\* backward, in 'joint' mode two per instance, one of each direction; the
\* examples built at the end are as many.
C15_ExamplesPerMode ==
    ds_pc \in {"loop", "done"} =>
        /\ Len(directions) = DatasetLen /\ Len(targets) = DatasetLen
        /\ Len(classes) = DatasetLen /\ Len(nb_spans) = DatasetLen
        /\ Len(span_starts) = DatasetLen /\ Len(span_ends) = DatasetLen
        /\ mode = "tn" =>
              /\ DatasetLen = ds_i
              /\ \A n \in 1..Len(directions) : directions[n] = "FORWARD"
        /\ mode = "itn" =>
              /\ DatasetLen = ds_i
              /\ \A n \in 1..Len(directions) : directions[n] = "BACKWARD"
        /\ mode = "joint" =>
              /\ DatasetLen = 2 * ds_i
              /\ \A n \in 1..ds_i :
                    {directions[2 * n - 1], directions[2 * n]} = {"FORWARD", "BACKWARD"}
        /\ ds_pc = "done" => Len(examples) = DatasetLen

\* the dataset was built in 'joint' mode from two instances: four examples
C15_Witness ==
    /\ ds_pc = "done"
    /\ mode = "joint"
    /\ Len(insts) = 2
    /\ Len(examples) = 4

\* ------------------------------------------------------------------
\* Claims about the batch driver (SpecMain)

\* the utterance u, processed on its own, raises nothing in
\* get_speech_labels_list nor in write_json_and_transcript
ProcessedAlone(u, p) ==
    LET r == SpeechLabelsOf(u, p)
    IN  /\ r.err = "none"
        /\ WriteRaises(u.labels, r.word_ts, r.spaces, r.trans_words, p) = "none"

\* C13: per-utterance failure isolation. When the script has ended, the
\* JSON and transcript of every utterance whose own processing raises
\* nothing have been written, whatever happened to the other utterances
\* of the batch.
C13_FailureIsolation ==
    main_pc \in {"done", "error"} =>
        \A k \in 1..Len(main_batch) :
            ProcessedAlone(main_batch[k], main_params) => k \in json_written

\* ------------------------------------------------------------------
\* Claims about the speech labels (SpecVAD)

\* C21: speech and non-speech are mutually exclusive: once the speech
\* labels are returned, no frame of the utterance lies both in a kept
\* non-speech interval and in an emitted speech interval.
C21_MutuallyExclusive ==
    vad_pc = "done" => \A f \in 0..(Len(probs) - 1) : ~(InNonSpeech(f) /\ InSpeech(f))

\* C29: get_speech_label_and_write_VAD_rttm raises nothing, whatever the
\* filtered non-speech list; for the empty list it returns the whole
\* utterance, frames 0 to numFrames, as its only speech interval.
C29_EmptyNonSpeechHandled ==
    vad_pc \in {"done", "error"} =>
        /\ vad_err = "none"
        /\ non_speech = <<>> =>
              speech_labels = <<[start |-> FrameTime(0, vad_params),
                                 end |-> FrameTime(Len(probs), vad_params)]>>

\* ------------------------------------------------------------------
\* Claims about the word timing (SpecWT)

\* the 0-based positions of the spaces of a text, in order
SpacePositions(tr) ==
    SelectSeq([i \in 1..Len(tr) |-> i - 1], LAMBDA k : tr[k + 1] = " ")

\* the boundaries of the text: one per space, from the frame of the space
\* to the frame before the next character
BoundariesOf(tr, ts) ==
    LET ks == SpacePositions(tr)
    IN  [jj \in 1..Len(ks) |-> <<ts[ks[jj] + 1], ts[ks[jj] + 2] - 1>>]

\* the words of the text: the substrings between the spaces
WordsOf(tr) ==
    LET ks == SpacePositions(tr)
    IN  [jj \in 1..(Len(ks) + 1) |->
            SubSeq(tr, IF jj = 1 THEN 1 ELSE ks[jj - 1] + 2,
                       IF jj <= Len(ks) THEN ks[jj] ELSE Len(tr))]

\* the windows of the words, the last one ending at `last`
WindowsOf(tr, ts, last) ==
    LET b == BoundariesOf(tr, ts)
    IN  [jj \in 1..(Len(b) + 1) |->
            <<IF jj = 1 THEN ts[1] ELSE b[jj - 1][2],
              IF jj <= Len(b) THEN b[jj][1] ELSE last>>]

C23_WindowsWellFormed ==
    (wt_pc \in {"check", "done"} /\ SpacePositions(trans) # <<>>) =>
        /\ \A i \in 1..Len(word_timetamps) : word_timetamps[i][1] <= word_timetamps[i][2]
        /\ \A i \in 1..(Len(word_timetamps) - 1) :
              word_timetamps[i][2] <= word_timetamps[i + 1][1]

\* three windows were built for a text with two spaces
C23_Witness ==
    /\ wt_pc = "done"
    /\ Len(SpacePositions(trans)) = 2
    /\ Len(word_timetamps) = 3

\* C24: the check of line 489 is reached only with as many words as
\* windows, so it never fails, and the function returns only with equal
\* counts; this includes texts with a leading space or consecutive spaces.
C24_CountsAgreeAtCheck ==
    /\ wt_pc \in {"check", "done"} => Len(trans_words) = Len(word_timetamps)
    /\ wt_pc = "check" =>
          /\ SpacePositions(trans) # <<>>
          /\ trans[Len(trans)] # " "

\* the check passed for a text of two leading spaces and a letter
C24_Witness ==
    /\ wt_pc = "done"
    /\ trans = <<" ", " ", "a">>
    /\ Len(trans_words) = 3
    /\ Len(word_timetamps) = 3

\* C28: once the entry assertions of _get_spaces hold (a non-empty text,
\* one timestamp per character), _get_spaces raises no IndexError.
C28_GetSpacesIndexSafe ==
    (trans # <<>> /\ Len(timestamps) = Len(trans)) =>
        ~(wt_pc = "error" /\ wt_err = "IndexError" /\ trans_words = <<>>)

\* the turns at or after the pointer i (0-based) whose end time is greater
\* than the position pos
TurnsPast(i, pos) == {m \in (i + 1)..Len(labels) : labels[m].end > pos}

\* the first of them
FirstTurnPast(i, pos) ==
    CHOOSE m \in TurnsPast(i, pos) : \A n \in TurnsPast(i, pos) : m <= n

\* C25: merge-join attribution. Every step of the word loop that writes a
\* word leaves the pointer at the first turn, at or after the turn the pointer
\* stood at, whose end time is greater than the word's position (whenever there
\* is such a turn), and the word is recorded under that turn's speaker.
C25_MergeJoinAttribution ==
    [][(sa_pc = "loop" /\ j' = j + 1 /\ TurnsPast(idx, pos_prev') # {}) =>
          /\ idx' + 1 = FirstTurnPast(idx, pos_prev')
          /\ riva_dict'.words[j'].speaker_label =
                 labels[FirstTurnPast(idx, pos_prev')].speaker]_vars

\* the markers of a transcript, in the order written
IsMarker(e) == e.kind = "time"
Markers(out) == SelectSeq(out, IsMarker)

\* the markers written so far are those of the turns up to the pointer, in
\* turn order
MarkersFollowPointer(out, i) ==
    /\ Len(Markers(out)) = i + 1
    /\ \A m \in 1..Len(Markers(out)) :
          m <= Len(labels) /\ Markers(out)[m].speaker = labels[m].speaker

\* C26: segmentation markers. The first step writes one marker, for the first
\* turn, before any word; every later step that writes a word writes a marker
\* immediately before it, and advances the pointer, exactly when the word's
\* time exceeds the end of the current turn; so the markers written are those
\* of the turns up to the pointer, in turn order.
C26_SegmentationMarkers ==
    [][/\ (sa_pc = "start" /\ sa_pc' = "loop") =>
              /\ Len(string_out') = 1
              /\ MarkersFollowPointer(string_out', idx')
       /\ (sa_pc = "loop" /\ j' = j + 1) =>
              /\ (pos_prev' > end_point) <=>
                     /\ Len(string_out') = Len(string_out) + 2
                     /\ IsMarker(string_out'[Len(string_out) + 1])
                     /\ idx' = idx + 1
              /\ ~IsMarker(string_out'[Len(string_out')])
              /\ MarkersFollowPointer(string_out', idx')]_vars

\* ------------------------------------------------------------------
\* Claims about the batch (SpecMain)

\* C27: utterance independence. When the script has ended, what the batch
\* run holds for each utterance is what a run on that utterance alone
\* gives: its words, word windows and space boundaries whenever
\* get_speech_labels_list completes on it alone, and its JSON record and
\* transcript exactly when write_json_and_transcript completes on it alone,
\* whatever the other utterances of the batch and their order.
C27_UtteranceIndependence ==
    main_pc \in {"done", "error"} =>
        \A k \in 1..Len(main_batch) :
            LET r == SpeechLabelsOf(main_batch[k], main_params)
            IN  /\ r.err = "none" =>
                      /\ k <= Len(trans_words_list)
                      /\ trans_words_list[k] = r.trans_words
                      /\ word_ts_list[k] = r.word_ts
                      /\ spaces_list[k] = r.spaces
                /\ (k \in json_written) <=> ProcessedAlone(main_batch[k], main_params)

\* ------------------------------------------------------------------
\* Claims about the transcription call (SpecTR)

\* C30: when transcribe is called with return_text_with_logprobs_and_ts (and
\* without logprobs) and returns its list, the list has exactly one entry per
\* audio file, in the order of the files, whatever the batch size, and the
\* text, the logits and the timestamps of each entry are those of that file.
C30_OneEntryPerFile ==
    (tr_pc = "done" /\ return_text_with_logprobs_and_ts /\ ~logprobs) =>
        /\ Len(tr_hypotheses) = Len(paths2audio_files)
        /\ \A k \in 1..Len(tr_hypotheses) :
              k <= Len(paths2audio_files) =>
                  tr_hypotheses[k] = Entry(TextOf(paths2audio_files[k]),
                                           LogitsOf(paths2audio_files[k]),
                                           TimestampsOf(paths2audio_files[k]))

====
